---- MODULE Spec2Model ----
(***************************************************************************)
(* Conway's Game of Life (src/game.js, class GameOfLife): the two grid     *)
(* buffers, the generation rule, and the run / pause / speed scheduling    *)
(* on top of setInterval / clearInterval.                                  *)
(*                                                                         *)
(* The grids are JavaScript arrays of row arrays.  Row arrays are objects  *)
(* that are written in place, so they live in a heap (rows) and the two    *)
(* fields currentGrid and nextGrid hold row references.  The outer arrays  *)
(* are written only while initializeGrids builds them, so each field is    *)
(* modelled by the tuple of row references it holds.                       *)
(*                                                                         *)
(* The DOM (cell classes, counters, button label, theme) is written by the *)
(* handlers but never read back by the engine; it is not part of the state.*)
(***************************************************************************)
EXTENDS Integers, FiniteSets, Sequences, TLC

\* ---- bounds of the model ----
SmallSize == 2      \* gridSize of the full state machine (Spec)
RuleSize == 3       \* gridSize of the rule specification (SpecRule)
MaxGen == 2         \* generation is capped: no step once it is reached
MaxTimers == 2      \* number of setInterval registrations explored
MaxSpeedInput == 24 \* largest argument of the direct setSpeed calls

\* ---- program constants ----
DefaultSpeed == 5
NoTimer == 0        \* intervalId = null
SpeedInputs == {5, 20}   \* values the speed slider hands to setSpeed

VARIABLES
    gridSize,       \* this.gridSize
    rows,           \* heap of row arrays: address -> [column -> BOOLEAN]
    currentGrid,    \* this.currentGrid: [row -> address]
    nextGrid,       \* this.nextGrid:    [row -> address]
    isRunning,      \* this.isRunning
    generation,     \* this.generation
    intervalId,     \* this.intervalId
    speed,          \* this.speed
    timers,         \* the scheduler's armed intervals: handle -> delay (ms)
    queued,         \* handles whose expiry task waits in the event loop
    nextTimerId     \* the handle the next setInterval returns

vars == <<gridSize, rows, currentGrid, nextGrid, isRunning, generation,
          intervalId, speed, timers, queued, nextTimerId>>

Idx == 0 .. (gridSize - 1)
Addr == 1 .. (2 * gridSize)
DeadRow == [c \in Idx |-> FALSE]

\* A grid by value: [row -> [col -> BOOLEAN]]
AllGrids == [Idx -> [Idx -> BOOLEAN]]

\* The contents of the buffer a field refers to
GridOf(h, g) == [r \in Idx |-> h[g[r]]]
CurGrid == GridOf(rows, currentGrid)
ScratchGrid == GridOf(rows, nextGrid)

\* ---- initializeGrids (fresh row arrays, all cells dead) ----
\* The row arrays allocated before are unreachable afterwards, so their
\* addresses are reused.
FreshCurrent == [r \in Idx |-> r + 1]
FreshNext == [r \in Idx |-> gridSize + r + 1]
FreshRows == [a \in Addr |-> DeadRow]

\* ---- countLiveCells ----
RECURSIVE CountLiveLoop(_, _, _, _)
CountLiveLoop(h, cur, idx, count) ==
    IF idx >= gridSize * gridSize THEN count
    ELSE LET row == idx \div gridSize
             col == idx % gridSize
         IN  IF h[cur[row]][col]
             THEN CountLiveLoop(h, cur, idx + 1, count + 1)
             ELSE CountLiveLoop(h, cur, idx + 1, count)

countLiveCells == CountLiveLoop(rows, currentGrid, 0, 0)

\* ---- countLiveNeighbors ----
\* k enumerates (deltaRow, deltaCol) in the order of the two nested loops.
RECURSIVE WrapNeighborLoop(_, _, _, _, _, _)
WrapNeighborLoop(h, cur, row, col, k, count) ==
    IF k > 8 THEN count
    ELSE LET deltaRow == (k \div 3) - 1
             deltaCol == (k % 3) - 1
             neighborRow == (row + deltaRow) % gridSize
             neighborCol == (col + deltaCol) % gridSize
         IN  IF deltaRow = 0 /\ deltaCol = 0
             THEN WrapNeighborLoop(h, cur, row, col, k + 1, count)
             ELSE IF h[cur[neighborRow]][neighborCol]
                  THEN WrapNeighborLoop(h, cur, row, col, k + 1, count + 1)
                  ELSE WrapNeighborLoop(h, cur, row, col, k + 1, count)

RECURSIVE NeighborLoop(_, _, _, _, _, _)
NeighborLoop(h, cur, row, col, k, count) ==
    IF k > 8 THEN count
    ELSE LET deltaRow == (k \div 3) - 1
             deltaCol == (k % 3) - 1
             neighborRow == row + deltaRow
             neighborCol == col + deltaCol
         IN  IF deltaRow = 0 /\ deltaCol = 0
             THEN NeighborLoop(h, cur, row, col, k + 1, count)
             ELSE IF /\ neighborRow >= 0 /\ neighborRow < gridSize
                     /\ neighborCol >= 0 /\ neighborCol < gridSize
                  THEN IF h[cur[neighborRow]][neighborCol]
                       THEN NeighborLoop(h, cur, row, col, k + 1, count + 1)
                       ELSE NeighborLoop(h, cur, row, col, k + 1, count)
                  ELSE NeighborLoop(h, cur, row, col, k + 1, count)

countLiveNeighbors(row, col) == NeighborLoop(rows, currentGrid, row, col, 0, 0)

\* ---- calculateNextGeneration ----
NoOverpopulationRule(isAlive, liveNeighbors) ==
    IF isAlive
    THEN IF liveNeighbors < 2 THEN FALSE ELSE TRUE
    ELSE IF liveNeighbors = 3 THEN TRUE ELSE FALSE

\* The value written for one cell (the if / else ladder of the loop body)
ConwayRule(isAlive, liveNeighbors) ==
    IF isAlive
    THEN IF liveNeighbors < 2 THEN FALSE
         ELSE IF liveNeighbors = 2 \/ liveNeighbors = 3 THEN TRUE
         ELSE FALSE
    ELSE IF liveNeighbors = 3 THEN TRUE
         ELSE FALSE

\* A loop that writes only the cells that come alive
RECURSIVE SparseCalcLoop(_, _, _, _)
SparseCalcLoop(h, cur, nxt, idx) ==
    IF idx >= gridSize * gridSize THEN h
    ELSE LET row == idx \div gridSize
             col == idx % gridSize
             liveNeighbors == NeighborLoop(h, cur, row, col, 0, 0)
             isAlive == h[cur[row]][col]
         IN  IF ConwayRule(isAlive, liveNeighbors)
             THEN SparseCalcLoop([h EXCEPT ![nxt[row]][col] = TRUE],
                                 cur, nxt, idx + 1)
             ELSE SparseCalcLoop(h, cur, nxt, idx + 1)

\* The two nested loops, row-major; every write goes to the heap at once, so
\* a later cell's neighbour count reads whatever earlier writes left there.
RECURSIVE CalcLoop(_, _, _, _)
CalcLoop(h, cur, nxt, idx) ==
    IF idx >= gridSize * gridSize THEN h
    ELSE LET row == idx \div gridSize
             col == idx % gridSize
             liveNeighbors == NeighborLoop(h, cur, row, col, 0, 0)
             isAlive == h[cur[row]][col]
             written == [h EXCEPT ![nxt[row]][col] =
                                     ConwayRule(isAlive, liveNeighbors)]
         IN  \* the write is done (heap is its value) before the next iteration
             CHOOSE result \in {CalcLoop(heap, cur, nxt, idx + 1) :
                                   heap \in {written}} : TRUE

calculateNextGeneration(h, cur, nxt) == CalcLoop(h, cur, nxt, 0)

\* ---- step ----
StepTwice ==
    /\ rows' = calculateNextGeneration(rows, currentGrid, nextGrid)
    /\ currentGrid' = nextGrid
    /\ nextGrid' = currentGrid
    /\ generation' = generation + 2

\* A step that computes into the scratch rows and then copies them back
\* over the current rows instead of exchanging the two fields
StepCopyBack ==
    /\ rows' = LET h == calculateNextGeneration(rows, currentGrid, nextGrid)
               IN  [a \in DOMAIN h |->
                      IF \E r \in Idx : currentGrid[r] = a
                      THEN h[nextGrid[CHOOSE r \in Idx : currentGrid[r] = a]]
                      ELSE h[a]]
    /\ UNCHANGED <<currentGrid, nextGrid>>
    /\ generation' = generation + 1

\* A step that leaves both fields referring to the computed buffer
StepAlias ==
    /\ rows' = calculateNextGeneration(rows, currentGrid, nextGrid)
    /\ currentGrid' = nextGrid
    /\ nextGrid' = nextGrid
    /\ generation' = generation + 1

step ==
    /\ rows' = calculateNextGeneration(rows, currentGrid, nextGrid)
    /\ currentGrid' = nextGrid
    /\ nextGrid' = currentGrid
    /\ generation' = generation + 1

\* ---- toggleCell ----
SetCellAlive(h, cur, row, col) == [h EXCEPT ![cur[row]][col] = TRUE]

toggleCell(h, cur, row, col) ==
    [h EXCEPT ![cur[row]][col] = ~h[cur[row]][col]]

\* ---- randomize: the loop that writes one Math.random() < 0.3 per cell ----
\* draw[row][col] is the outcome of the comparison for that cell.
RECURSIVE RandomizeOrLoop(_, _, _, _)
RandomizeOrLoop(h, cur, draw, idx) ==
    IF idx >= gridSize * gridSize THEN h
    ELSE LET row == idx \div gridSize
             col == idx % gridSize
         IN  RandomizeOrLoop([h EXCEPT ![cur[row]][col] =
                                           h[cur[row]][col] \/ draw[row][col]],
                             cur, draw, idx + 1)

RECURSIVE RandomizeLoop(_, _, _, _)
RandomizeLoop(h, cur, draw, idx) ==
    IF idx >= gridSize * gridSize THEN h
    ELSE LET row == idx \div gridSize
             col == idx % gridSize
         IN  RandomizeLoop([h EXCEPT ![cur[row]][col] = draw[row][col]],
                           cur, draw, idx + 1)

\* ---- the scheduler: setInterval / clearInterval ----
EmptyTimers == [h \in {} |-> 0]

\* setInterval(callback, interval) returning the handle id
setInterval(ts, id, interval) ==
    [h \in DOMAIN ts \cup {id} |-> IF h = id THEN interval ELSE ts[h]]

\* clearInterval(id): a handle that is not armed (or null) is ignored
clearInterval(ts, id) == [h \in DOMAIN ts \ {id} |-> ts[h]]

IntervalNoFloor(s) == 1000 - (s - 1) * 45

\* Math.max(50, 1000 - (speed - 1) * 45)
Interval(s) ==
    LET raw == 1000 - (s - 1) * 45
    IN  IF 50 >= raw THEN 50 ELSE raw

\* The fields start() and pause() read and write, as one record
TimerState ==
    [isRunning |-> isRunning, intervalId |-> intervalId,
     timers |-> timers, nextTimerId |-> nextTimerId]

SetTimerState(t) ==
    /\ isRunning' = t.isRunning
    /\ intervalId' = t.intervalId
    /\ timers' = t.timers
    /\ nextTimerId' = t.nextTimerId

\* ---- start ----
StartUnguarded(t, spd) ==
    [isRunning |-> TRUE,
     intervalId |-> t.nextTimerId,
     timers |-> setInterval(t.timers, t.nextTimerId, Interval(spd)),
     nextTimerId |-> t.nextTimerId + 1]

StartFixedDelay(t, spd) ==
    IF t.isRunning THEN t
    ELSE [isRunning |-> TRUE,
          intervalId |-> t.nextTimerId,
          timers |-> setInterval(t.timers, t.nextTimerId,
                                 Interval(DefaultSpeed)),
          nextTimerId |-> t.nextTimerId + 1]

start(t, spd) ==
    IF t.isRunning THEN t
    ELSE [isRunning |-> TRUE,
          intervalId |-> t.nextTimerId,
          timers |-> setInterval(t.timers, t.nextTimerId, Interval(spd)),
          nextTimerId |-> t.nextTimerId + 1]

\* ---- pause ----
PauseNoClear(t) ==
    IF ~t.isRunning THEN t
    ELSE [t EXCEPT !.isRunning = FALSE, !.intervalId = NoTimer]

pause(t) ==
    IF ~t.isRunning THEN t
    ELSE [t EXCEPT !.isRunning = FALSE,
                   !.timers = clearInterval(t.timers, t.intervalId),
                   !.intervalId = NoTimer]

\* ---- toggleStartPause ----
ToggleInverted(t, spd) ==
    IF t.isRunning THEN start(t, spd) ELSE pause(t)

toggleStartPause(t, spd) ==
    IF t.isRunning THEN pause(t) ELSE start(t, spd)

\* ---- setSpeed: the timer part (this.speed is assigned first) ----
SetSpeedNoRestart(t, newSpeed) == t

setSpeedTimer(t, newSpeed) ==
    IF t.isRunning THEN start(pause(t), newSpeed) ELSE t

\* start() would call setInterval from t: only MaxTimers handles are explored
CanArm(t) == t.isRunning \/ t.nextTimerId <= MaxTimers

(***************************************************************************)
(* Actions: one per method call, click handler or scheduler step.  Every   *)
(* handler runs to completion (one JavaScript task).                       *)
(***************************************************************************)

\* cell click -> toggleCell(row, col)
ToggleCell(row, col) ==
    /\ rows' = toggleCell(rows, currentGrid, row, col)
    /\ UNCHANGED <<gridSize, currentGrid, nextGrid, isRunning, generation,
                   intervalId, speed, timers, queued, nextTimerId>>

\* step() called directly
Step ==
    /\ generation < MaxGen
    /\ step
    /\ UNCHANGED <<gridSize, isRunning, intervalId, speed, timers, queued,
                   nextTimerId>>

\* stepBtn click: if (!this.isRunning) this.step()
StepClick ==
    /\ ~isRunning
    /\ generation < MaxGen
    /\ step
    /\ UNCHANGED <<gridSize, isRunning, intervalId, speed, timers, queued,
                   nextTimerId>>

Start ==
    /\ CanArm(TimerState)
    /\ SetTimerState(start(TimerState, speed))
    /\ UNCHANGED <<gridSize, rows, currentGrid, nextGrid, generation, speed,
                   queued>>

Pause ==
    /\ SetTimerState(pause(TimerState))
    /\ UNCHANGED <<gridSize, rows, currentGrid, nextGrid, generation, speed,
                   queued>>

\* startPauseBtn click
ToggleStartPause ==
    /\ CanArm(TimerState)
    /\ SetTimerState(toggleStartPause(TimerState, speed))
    /\ UNCHANGED <<gridSize, rows, currentGrid, nextGrid, generation, speed,
                   queued>>

ClearNoPause ==
    /\ rows' = FreshRows
    /\ currentGrid' = FreshCurrent
    /\ nextGrid' = FreshNext
    /\ generation' = 0
    /\ UNCHANGED <<gridSize, isRunning, intervalId, speed, timers, queued,
                   nextTimerId>>

\* clearBtn click: pause(); initializeGrids(); generation = 0
Clear ==
    /\ SetTimerState(pause(TimerState))
    /\ rows' = FreshRows
    /\ currentGrid' = FreshCurrent
    /\ nextGrid' = FreshNext
    /\ generation' = 0
    /\ UNCHANGED <<gridSize, speed, queued>>

\* randomizeBtn click: pause(); the cell loop; generation = 0
Randomize(draw) ==
    /\ SetTimerState(pause(TimerState))
    /\ rows' = RandomizeLoop(rows, currentGrid, draw, 0)
    /\ generation' = 0
    /\ UNCHANGED <<gridSize, currentGrid, nextGrid, speed, queued>>

\* speedSlider input -> setSpeed(newSpeed)
SetSpeed(newSpeed) ==
    /\ speed' = newSpeed
    /\ ~isRunning \/ nextTimerId <= MaxTimers
    /\ SetTimerState(setSpeedTimer(TimerState, newSpeed))
    /\ UNCHANGED <<gridSize, rows, currentGrid, nextGrid, generation, queued>>

\* The scheduler: the delay of an armed interval has elapsed and the task
\* that will run its callback is queued on the event loop.
TimerExpire(h) ==
    /\ h \in DOMAIN timers
    /\ h \notin queued
    /\ queued' = queued \cup {h}
    /\ UNCHANGED <<gridSize, rows, currentGrid, nextGrid, isRunning,
                   generation, intervalId, speed, timers, nextTimerId>>

\* A queued task of an armed handle that is consumed without calling step()
TimerFireNoStep(h) ==
    /\ h \in queued
    /\ h \in DOMAIN timers
    /\ queued' = queued \ {h}
    /\ UNCHANGED <<gridSize, rows, currentGrid, nextGrid, isRunning,
                   generation, intervalId, speed, timers, nextTimerId>>

\* The queued task runs and the handle is still armed: the callback
\* () => { this.step(); } runs.
TimerFire(h) ==
    /\ h \in queued
    /\ h \in DOMAIN timers
    /\ generation < MaxGen
    /\ queued' = queued \ {h}
    /\ step
    /\ UNCHANGED <<gridSize, isRunning, intervalId, speed, timers,
                   nextTimerId>>

\* The queued task runs after clearInterval removed its handle: the task
\* finds the handle gone and returns without calling the callback.
TimerDrop(h) ==
    /\ h \in queued
    /\ h \notin DOMAIN timers
    /\ queued' = queued \ {h}
    /\ UNCHANGED <<gridSize, rows, currentGrid, nextGrid, isRunning,
                   generation, intervalId, speed, timers, nextTimerId>>

Handles == 1 .. MaxTimers

\* ---- the constructor ----
Constructed(size) ==
    /\ gridSize = size
    /\ rows = FreshRows
    /\ currentGrid = FreshCurrent
    /\ nextGrid = FreshNext
    /\ isRunning = FALSE
    /\ generation = 0
    /\ intervalId = NoTimer
    /\ speed = DefaultSpeed
    /\ timers = EmptyTimers
    /\ queued = {}
    /\ nextTimerId = 1

Init == Constructed(SmallSize)

Next ==
    \/ \E row \in Idx, col \in Idx : ToggleCell(row, col)
    \/ Step
    \/ StepClick
    \/ Start
    \/ Pause
    \/ ToggleStartPause
    \/ Clear
    \/ \E draw \in AllGrids : Randomize(draw)
    \/ \E newSpeed \in SpeedInputs : SetSpeed(newSpeed)
    \/ \E h \in Handles : TimerExpire(h)
    \/ \E h \in Handles : TimerFire(h)
    \/ \E h \in Handles : TimerDrop(h)

Spec == Init /\ [][Next]_vars

(***************************************************************************)
(* The rule specification: a paused engine of RuleSize x RuleSize whose    *)
(* current buffer holds any grid (every grid is reachable by cell clicks)  *)
(* and whose scratch buffer holds one of several stale contents; the only  *)
(* operation is step().                                                    *)
(***************************************************************************)
AllDead == [r \in Idx |-> [c \in Idx |-> FALSE]]
AllAlive == [r \in Idx |-> [c \in Idx |-> TRUE]]
Complement(g) == [r \in Idx |-> [c \in Idx |-> ~g[r][c]]]
ScratchChoices(g) == {AllDead, AllAlive, g, Complement(g)}

\* The heap in which the two fresh buffers hold grids g and s
HeapOf(g, s) ==
    [a \in Addr |-> IF a <= gridSize THEN g[a - 1] ELSE s[a - gridSize - 1]]

InitRule ==
    /\ gridSize = RuleSize
    /\ currentGrid = FreshCurrent
    /\ nextGrid = FreshNext
    /\ \E g \in AllGrids : \E s \in ScratchChoices(g) : rows = HeapOf(g, s)
    /\ isRunning = FALSE
    /\ generation = 0
    /\ intervalId = NoTimer
    /\ speed = DefaultSpeed
    /\ timers = EmptyTimers
    /\ queued = {}
    /\ nextTimerId = 1

NextRule == StepClick

SpecRule == InitRule /\ [][NextRule]_vars

(***************************************************************************)
(* Properties                                                              *)
(***************************************************************************)

\* The live cells among the up-to-8 in-grid positions adjacent to (r, c) of
\* the grid g, stated as a set.
LiveNeighborSet(g, r, c) ==
    {p \in Idx \X Idx :
        /\ p # <<r, c>>
        /\ p[1] - r \in {-1, 0, 1}
        /\ p[2] - c \in {-1, 0, 1}
        /\ g[p[1]][p[2]]}

LiveNeighborCount(g, r, c) == Cardinality(LiveNeighborSet(g, r, c))

\* Conway's rule for the cell (r, c) of the grid g
AliveNext(g, r, c) ==
    \/ g[r][c] /\ LiveNeighborCount(g, r, c) \in {2, 3}
    \/ ~g[r][c] /\ LiveNeighborCount(g, r, c) = 3

\* C1: after one step() each cell of currentGrid is alive iff, in the grid
\* before the step, it was alive with 2 or 3 live neighbours or dead with
\* exactly 3; the counts are those of the pre-step grid.
C1_StepAppliesRule ==
    [][generation' = generation + 1 =>
         \A r \in Idx, c \in Idx : CurGrid'[r][c] <=> AliveNext(CurGrid, r, c)]_vars

\* A step has acted (nextGrid holds the pre-step grid) and all four outcomes
\* of the rule occurred in it: overpopulation, underpopulation, survival
\* and reproduction.
C1_Witness ==
    /\ generation = 1
    /\ \E r \in Idx, c \in Idx :
          ScratchGrid[r][c] /\ LiveNeighborCount(ScratchGrid, r, c) > 3
          /\ ~CurGrid[r][c]
    /\ \E r \in Idx, c \in Idx :
          ScratchGrid[r][c] /\ LiveNeighborCount(ScratchGrid, r, c) < 2
          /\ ~CurGrid[r][c]
    /\ \E r \in Idx, c \in Idx : ScratchGrid[r][c] /\ CurGrid[r][c]
    /\ \E r \in Idx, c \in Idx : ~ScratchGrid[r][c] /\ CurGrid[r][c]

IsCorner(r, c) == r \in {0, gridSize - 1} /\ c \in {0, gridSize - 1}
IsBorder(r, c) == r \in {0, gridSize - 1} \/ c \in {0, gridSize - 1}

\* C2: countLiveNeighbors(row, col) is the number of live cells of
\* currentGrid among the adjacent positions inside the grid (no wraparound,
\* the cell itself excluded); it is in 0..8, at most 3 for a corner and at
\* most 5 for an edge cell.
C2_NeighborCount ==
    \A r \in Idx, c \in Idx :
        LET n == countLiveNeighbors(r, c)
        IN  /\ n = LiveNeighborCount(CurGrid, r, c)
            /\ n \in 0 .. 8
            /\ IsCorner(r, c) => n <= 3
            /\ IsBorder(r, c) => n <= 5

\* The three bounds are attained: an interior cell with 8 live neighbours,
\* a corner with 3 and an edge cell with 5.
C2_Witness ==
    /\ \E r \in Idx, c \in Idx : countLiveNeighbors(r, c) = 8
    /\ \E r \in Idx, c \in Idx : IsCorner(r, c) /\ countLiveNeighbors(r, c) = 3
    /\ \E r \in Idx, c \in Idx :
          IsBorder(r, c) /\ ~IsCorner(r, c) /\ countLiveNeighbors(r, c) = 5

\* The heap of this state with the scratch buffer holding the grid s
WithScratch(s) ==
    [a \in Addr |->
        IF \E r \in Idx : nextGrid[r] = a
        THEN s[CHOOSE r \in Idx : nextGrid[r] = a]
        ELSE rows[a]]

\* currentGrid as step() leaves it when it starts from the heap h
StepResult(h) ==
    GridOf(calculateNextGeneration(h, currentGrid, nextGrid), nextGrid)

\* C7: step() depends on currentGrid alone: from two states that agree on
\* currentGrid and differ in the contents of nextGrid, step() yields the same
\* currentGrid.
C7_StepIgnoresScratch ==
    LET here == StepResult(rows)
    IN  \A s \in ScratchChoices(CurGrid) : StepResult(WithScratch(s)) = here

\* The scratch buffer is stale from an earlier step and not dead, and the
\* step from here gives a grid that is neither dead nor the scratch contents.
C7_Witness ==
    /\ generation = 1
    /\ ScratchGrid # AllDead
    /\ StepResult(rows) \notin {AllDead, ScratchGrid, CurGrid}

\* C3: at most one interval is armed, and isRunning holds exactly when
\* intervalId is set and names the armed interval; when the engine is not
\* running nothing is armed.
C3_OneTimer ==
    /\ Cardinality(DOMAIN timers) <= 1
    /\ isRunning <=> intervalId # NoTimer
    /\ isRunning <=> intervalId \in DOMAIN timers
    /\ isRunning => DOMAIN timers = {intervalId}
    /\ ~isRunning => DOMAIN timers = {}

\* Running on the second registration, the first one cancelled while a
\* firing of it was still queued.
C3_Witness ==
    /\ isRunning
    /\ nextTimerId > 2
    /\ DOMAIN timers = {intervalId}
    /\ \E h \in queued : h # intervalId

\* C4: while the engine is paused, a timer task that runs changes neither
\* generation nor the grids.
C4_NoStepWhilePaused ==
    [][(~isRunning /\ queued' # queued /\ queued' \subseteq queued) =>
          UNCHANGED <<generation, rows, currentGrid, nextGrid>>]_vars

\* Paused after a run, with a firing of the cancelled callback still queued.
C4_Witness ==
    /\ ~isRunning
    /\ intervalId = NoTimer
    /\ nextTimerId > 1
    /\ queued # {}
    /\ generation > 0

\* C5: setSpeed(n) while running cancels the armed interval and registers
\* exactly one new one at Interval(n); the cancelled handle is never armed
\* again and only an armed handle's task steps.  setSpeed(n) while not
\* running arms nothing.
C5_SetSpeedRestarts ==
    /\ [][\A n \in SpeedInputs :
            SetSpeed(n) =>
              IF isRunning
              THEN /\ isRunning'
                   /\ intervalId' # intervalId
                   /\ DOMAIN timers' = {intervalId'}
                   /\ timers'[intervalId'] = Interval(n)
                   /\ nextTimerId' = nextTimerId + 1
              ELSE /\ ~isRunning'
                   /\ DOMAIN timers' = {}
                   /\ nextTimerId' = nextTimerId]_vars
    /\ [][\A h \in Handles :
            (h < nextTimerId /\ h \notin DOMAIN timers) =>
               /\ h \notin DOMAIN timers'
               /\ (h \in queued /\ queued' = queued \ {h}) =>
                     UNCHANGED <<generation, rows, currentGrid, nextGrid>>]_vars

\* Running at the new speed on a second handle while a firing of the first,
\* cancelled one is still queued.
C5_Witness ==
    /\ isRunning
    /\ speed = 20
    /\ intervalId = 2
    /\ DOMAIN timers = {2}
    /\ timers[2] = Interval(20)
    /\ 1 \in queued

\* C6: generation starts at 0, is never negative, and every transition
\* leaves it unchanged, adds exactly 1 (a step, direct or from a timer), or
\* resets it to 0 (clear or randomize); the other operations never change it.
C6_GenerationCounter ==
    /\ generation = 0
    /\ [](generation \in Nat)
    /\ [][\/ generation' = generation
          \/ /\ generation' = generation + 1
             /\ Step \/ StepClick \/ \E h \in Handles : TimerFire(h)
          \/ /\ generation' = 0
             /\ Clear \/ Randomize(CurGrid')]_vars
    /\ [][(\/ \E r \in Idx, c \in Idx : ToggleCell(r, c)
           \/ Start \/ Pause \/ ToggleStartPause
           \/ \E n \in SpeedInputs : SetSpeed(n)
           \/ \E h \in Handles : TimerExpire(h) \/ TimerDrop(h))
          => generation' = generation]_vars

\* The counter was stepped up to the cap by the running timer.
C6_Witness ==
    /\ generation = MaxGen
    /\ isRunning
    /\ countLiveCells > 0

\* C8: clear(), from any state, leaves every cell of currentGrid dead
\* (countLiveCells() = 0), generation 0, isRunning false and nothing armed.
C8_ClearResets ==
    [][Clear =>
         /\ \A r \in Idx, c \in Idx : ~CurGrid'[r][c]
         /\ countLiveCells' = 0
         /\ generation' = 0
         /\ ~isRunning'
         /\ intervalId' = NoTimer
         /\ DOMAIN timers' = {}]_vars

\* A freshly cleared engine that had been running: a timer was registered,
\* a firing of it is still queued, and nothing is armed.
C8_Witness ==
    /\ currentGrid = FreshCurrent
    /\ rows = FreshRows
    /\ countLiveCells = 0
    /\ generation = 0
    /\ ~isRunning
    /\ nextTimerId > 1
    /\ queued # {}

\* C9: randomize(), from any state, leaves generation 0, isRunning false and
\* nothing armed, and every grid is a possible outcome whatever the grid
\* was before (each cell is drawn on its own).
C9_RandomizeResets ==
    /\ [](\A g \in AllGrids : ENABLED (Randomize(g) /\ CurGrid' = g))
    /\ [][Randomize(CurGrid') =>
              /\ generation' = 0
              /\ ~isRunning'
              /\ intervalId' = NoTimer
              /\ DOMAIN timers' = {}]_vars

\* A randomized grid (generation 0, some cells alive, some dead, the scratch
\* buffer stale from an earlier step) on an engine that had been running.
C9_Witness ==
    /\ generation = 0
    /\ ~isRunning
    /\ nextTimerId > 1
    /\ queued # {}
    /\ countLiveCells = 2
    /\ currentGrid = FreshNext
    /\ ScratchGrid # AllDead

\* C10: toggleCell(row, col) negates the cell (row, col) of currentGrid and
\* leaves the other cells, generation, isRunning, speed, intervalId and the
\* armed interval unchanged; toggling the same cell twice restores the grid.
C10_ToggleFrame ==
    /\ [][\A row \in Idx, col \in Idx :
            ToggleCell(row, col) =>
              /\ CurGrid'[row][col] = ~CurGrid[row][col]
              /\ \A r \in Idx, c \in Idx :
                    <<r, c>> # <<row, col>> => CurGrid'[r][c] = CurGrid[r][c]
              /\ UNCHANGED <<generation, isRunning, speed, intervalId,
                             timers>>]_vars
    /\ [](\A row \in Idx, col \in Idx :
            GridOf(toggleCell(toggleCell(rows, currentGrid, row, col),
                              currentGrid, row, col),
                   currentGrid) = CurGrid)

\* A running engine at generation 0 with exactly one live cell.
C10_Witness ==
    /\ isRunning
    /\ generation = 0
    /\ countLiveCells = 1
    /\ DOMAIN timers = {intervalId}

(***************************************************************************)
(* toggleCell(row, col) called with arbitrary arguments.  The method has   *)
(* no bounds check, so JavaScript's array semantics decide what happens:   *)
(*  - this.currentGrid[row] is undefined for a row outside the grid, and   *)
(*    reading [col] of undefined throws a TypeError before anything is     *)
(*    written;                                                             *)
(*  - for a row inside the grid, a missing element reads as undefined,     *)
(*    !undefined is true, and the assignment creates the element col of    *)
(*    the row array (the row grows); updateCellDisplay then finds no DOM   *)
(*    cell (createDOMGrid made gridSize x gridSize of them) and throws a   *)
(*    TypeError on cellElement.classList, after the write.                 *)
(***************************************************************************)

\* arr[col] as a condition: a missing element is undefined, which is falsy
Truthy(arr, col) == col \in DOMAIN arr /\ arr[col]

\* arr[col] = v
WriteElement(arr, col, v) ==
    [k \in DOMAIN arr \cup {col} |-> IF k = col THEN v ELSE arr[k]]

\* The heap after toggleCell(row, col), whether it returns or throws
toggleCellAt(h, cur, row, col) ==
    IF row \notin DOMAIN cur
    THEN h
    ELSE [h EXCEPT ![cur[row]] =
                      WriteElement(h[cur[row]], col, ~Truthy(h[cur[row]], col))]

\* toggleCell(row, col) ends in an exception
toggleCellThrows(cur, row, col) ==
    row \notin DOMAIN cur \/ col \notin Idx

InBounds(row, col) == row \in Idx /\ col \in Idx

\* The arguments of the direct calls: the grid's indices and the first
\* index past them
CallCoords == 0 .. gridSize

\* toggleCell(row, col) called directly
ToggleCellCall(row, col) ==
    /\ rows' = toggleCellAt(rows, currentGrid, row, col)
    /\ UNCHANGED <<gridSize, currentGrid, nextGrid, isRunning, generation,
                   intervalId, speed, timers, queued, nextTimerId>>

NextCalls ==
    \/ \E row \in CallCoords, col \in CallCoords : ToggleCellCall(row, col)
    \/ StepClick
    \/ Clear

SpecCalls == Init /\ [][NextCalls]_vars

\* C11: toggleCell(row, col) with row or col outside [0, size) leaves the
\* engine state exactly as it was before the call.
C11_OutOfBoundsToggleKeepsState ==
    [][\A row \in CallCoords, col \in CallCoords :
          (~InBounds(row, col) /\ ToggleCellCall(row, col)) =>
             UNCHANGED <<rows, currentGrid, nextGrid, gridSize, generation,
                         isRunning>>]_vars

\* C16: currentGrid and nextGrid both have exactly gridSize rows of exactly
\* gridSize cells each, every cell a boolean, and gridSize is the size the
\* engine was constructed with.
C16_Dimensions ==
    /\ gridSize = SmallSize
    /\ DOMAIN currentGrid = Idx
    /\ DOMAIN nextGrid = Idx
    /\ \A r \in Idx :
          /\ DOMAIN rows[currentGrid[r]] = Idx
          /\ DOMAIN rows[nextGrid[r]] = Idx
          /\ \A c \in Idx : rows[currentGrid[r]][c] \in BOOLEAN
          /\ \A c \in Idx : rows[nextGrid[r]][c] \in BOOLEAN

(***************************************************************************)
(* setSpeed(newSpeed) called with arbitrary integers, on an engine that is *)
(* started, paused and driven by its timer.  setSpeed stores its argument  *)
(* as it is: the method holds no range check.                              *)
(***************************************************************************)
WideSpeedInputs == 0 .. MaxSpeedInput

NextSpeed ==
    \/ \E newSpeed \in WideSpeedInputs : SetSpeed(newSpeed)
    \/ Start
    \/ Pause
    \/ ToggleStartPause
    \/ \E h \in Handles : TimerExpire(h)
    \/ \E h \in Handles : TimerFire(h)
    \/ \E h \in Handles : TimerDrop(h)

SpecSpeed == Init /\ [][NextSpeed]_vars

\* C12: whatever integers setSpeed is called with, the stored speed is an
\* integer in 1..20.
C12_SpeedInRange == speed \in 1 .. 20

\* The delay the specification prescribes for a speed
ClaimedDelay(s) ==
    IF 1000 - (s - 1) * 45 < 50 THEN 50 ELSE 1000 - (s - 1) * 45

\* C14: whenever the engine is running, the single armed interval has the
\* delay max(50, 1000 - (speed - 1) * 45) of the current speed.
C14_ArmedDelayMatchesSpeed ==
    isRunning =>
        /\ DOMAIN timers = {intervalId}
        /\ timers[intervalId] = ClaimedDelay(speed)

\* Running on a second registration at speed 20 (145 ms): the speed was
\* changed after the first start.
C14_Witness ==
    /\ isRunning
    /\ speed = 20
    /\ nextTimerId > 2
    /\ timers[intervalId] = 145

\* C15: the delay start() computes never rises as the speed rises and is
\* never below 50 ms, and it falls strictly within the speeds 1..20.
C15_DelayMonotone ==
    /\ Interval(speed) >= 50
    /\ \A t \in WideSpeedInputs :
          speed < t =>
             /\ Interval(speed) >= Interval(t)
             /\ Interval(t) >= 50
             /\ (speed \in 1 .. 20 /\ t \in 1 .. 20) =>
                    Interval(speed) > Interval(t)

\* An interval armed at the 50 ms floor, which the unclamped formula would
\* undercut.
C15_Witness ==
    /\ isRunning
    /\ 1000 - (speed - 1) * 45 < 50
    /\ timers[intervalId] = 50

(***************************************************************************)
(* new GameOfLife(gridSize) with any integer.  The constructor stores the  *)
(* argument and runs initializeGrids, whose loops run no iteration when    *)
(* gridSize <= 0: the engine is built with two empty grids, and nothing is *)
(* thrown.  Size 0 stands for the sizes that are not positive.             *)
(***************************************************************************)
CtorSizes == 0 .. SmallSize

InitCtor == \E size \in CtorSizes : Constructed(size)

NextCtor ==
    \/ \E row \in Idx, col \in Idx : ToggleCell(row, col)
    \/ StepClick
    \/ Clear

SpecCtor == InitCtor /\ [][NextCtor]_vars

\* C13: an engine exists only for a size > 0 (construction with size <= 0
\* fails), and a constructed engine has two size x size grids of dead cells,
\* generation 0, isRunning false, no armed timer and speed 5.
C13_ConstructorValidates ==
    /\ gridSize > 0
    /\ DOMAIN currentGrid = Idx /\ DOMAIN nextGrid = Idx
    /\ CurGrid = AllDead /\ ScratchGrid = AllDead
    /\ generation = 0
    /\ ~isRunning
    /\ intervalId = NoTimer /\ DOMAIN timers = {}
    /\ speed = 5
    /\ [](gridSize > 0)

\* C17: step() exchanges the two buffers: right after it nextGrid is the
\* buffer that was currentGrid and holds, cell for cell, the grid currentGrid
\* held before the step, currentGrid is the former scratch buffer and holds
\* the newly computed generation, and the rows of the former current buffer
\* are not written (nothing is copied between the buffers).
C17_StepExchangesBuffers ==
    [][generation' = generation + 1 =>
         /\ nextGrid' = currentGrid
         /\ currentGrid' = nextGrid
         /\ ScratchGrid' = CurGrid
         /\ \A r \in Idx : rows'[currentGrid[r]] = rows[currentGrid[r]]
         /\ \A r \in Idx, c \in Idx :
               CurGrid'[r][c] <=> AliveNext(CurGrid, r, c)]_vars

\* One step ran from the fresh buffers: the fields are exchanged, the stale
\* grid in nextGrid has live cells and differs from the new generation,
\* which has live cells too.
C17_Witness ==
    /\ generation = 1
    /\ currentGrid = FreshNext
    /\ nextGrid = FreshCurrent
    /\ ScratchGrid # CurGrid
    /\ ScratchGrid # AllDead
    /\ CurGrid # AllDead

(***************************************************************************)
(* The running engine left alone: cell clicks and start() only, so that no *)
(* pause, clear, randomize or setSpeed intervenes.  setInterval keeps      *)
(* firing an armed timer: its delay elapses again and again and the event  *)
(* loop runs every queued task, hence the two weak fairness conditions.    *)
(***************************************************************************)
NextLive ==
    \/ \E row \in Idx, col \in Idx : ToggleCell(row, col)
    \/ Start
    \/ \E h \in Handles : TimerExpire(h)
    \/ \E h \in Handles : TimerFire(h)

SpecLive ==
    /\ Init
    /\ [][NextLive]_vars
    /\ WF_vars(\E h \in Handles : TimerExpire(h))
    /\ WF_vars(\E h \in Handles : TimerFire(h))

\* C18: with no pause, clear, randomize or setSpeed intervening, every
\* queued firing of the armed callback that is consumed performs exactly one
\* step() (generation grows by exactly 1 and the grid advances by one
\* application of the rule), and, the timer firing with weak fairness, a
\* running engine's generation eventually increases.
C18_FiringSteps ==
    /\ [][\A h \in Handles :
             (h \in queued /\ h \in DOMAIN timers /\ h \notin queued') =>
                /\ generation' = generation + 1
                /\ \A r \in Idx, c \in Idx :
                      CurGrid'[r][c] <=> AliveNext(CurGrid, r, c)]_vars
    /\ \A g \in 0 .. (MaxGen - 1) :
          (isRunning /\ generation = g) ~> (generation = g + 1)

\* The armed callback has fired twice on a grid with live cells and its
\* next firing is queued.
C18_Witness ==
    /\ isRunning
    /\ generation = 2
    /\ intervalId \in DOMAIN timers
    /\ queued = {intervalId}
    /\ CurGrid # AllDead

\* C19: start() on a running engine and pause() on a paused engine can be
\* called and change nothing (isRunning, the handle, the armed timers and
\* their delays, the grids, generation); toggleStartPause() always negates
\* isRunning, and its effect is that of pause() when running and of start()
\* otherwise.
C19_NoOpsAndToggle ==
    /\ [](/\ isRunning => (ENABLED Start) /\ ~ENABLED <<Start>>_vars
          /\ ~isRunning => (ENABLED Pause) /\ ~ENABLED <<Pause>>_vars
          /\ CanArm(TimerState) =>
                /\ ENABLED (ToggleStartPause /\ isRunning' = ~isRunning)
                /\ ~ENABLED (ToggleStartPause /\ isRunning' = isRunning))
    /\ [][ToggleStartPause => IF isRunning THEN Pause ELSE Start]_vars

\* The engine runs on its second timer after a step: start() here is the
\* no-op case, and toggleStartPause() has acted as start, pause and start.
C19_Witness ==
    /\ isRunning
    /\ intervalId = 2
    /\ DOMAIN timers = {2}
    /\ generation = 1
    /\ ENABLED Start

\* C20: in every reachable state currentGrid and nextGrid have no row array
\* in common, so the writes calculateNextGeneration makes to nextGrid leave
\* every cell of currentGrid (what countLiveNeighbors reads) as it was.
C20_BuffersDisjoint ==
    /\ \A r \in Idx, q \in Idx : currentGrid[r] # nextGrid[q]
    /\ GridOf(calculateNextGeneration(rows, currentGrid, nextGrid),
              currentGrid) = CurGrid

\* The buffers were exchanged twice and are back in their fresh positions,
\* with live cells in currentGrid.
C20_Witness ==
    /\ generation = 2
    /\ currentGrid = FreshCurrent
    /\ nextGrid = FreshNext
    /\ CurGrid # AllDead

====
